---------------------------- MODULE Spec2Model ----------------------------
(***************************************************************************)
(* LambdaRunner.invoke (samcli/commands/local/lib/lambda_runner.py) and    *)
(* RemoteLambdaRunner.invoke (samcli/commands/local/lib/remote_lambda.py)  *)
(* as a state machine.  One invocation is one behaviour: Init is the state *)
(* in which LambdaRunner.invoke has just been entered, each action is one  *)
(* statement (or one group of adjacent statements) of the two methods, and *)
(* pc = "done" is the state in which LambdaRunner.invoke has returned or   *)
(* an exception has left it.                                               *)
(*                                                                         *)
(* Python values are tagged records: None is [tag |-> "None"], a str       *)
(* carried in an optional field is [tag |-> "str", v |-> ...], bytes are   *)
(* sequences of 0..255, and the text of LogResult is a sequence of         *)
(* one-character strings.                                                  *)
(***************************************************************************)
EXTENDS Integers, Sequences, FiniteSets, TLC

VARIABLES
    pc,        \* the statement about to run
    provider,  \* local_lambda_runner.provider: identifier -> Function or None
    self,      \* the RemoteLambdaRunner instance's fields
    args,      \* the arguments of LambdaRunner.invoke
    rargs,     \* the parameters RemoteLambdaRunner.invoke was entered with
    gen,       \* remote_execution_info, the iterator execute() returned
    loc,       \* local variables of the two methods
    io,        \* what has been written: the two sinks, LOG.debug, print
    calls,     \* the calls made to the collaborators, in order
    raised     \* the exception that left the invocation, or None

vars == <<pc, provider, self, args, rargs, gen, loc, io, calls, raised>>

---------------------------------------------------------------------------
(* Bounds of the model. *)

MaxStream == 2      \* records the result stream can still yield
MaxPayloadLen == 1  \* bytes in a response payload
MaxLogLen == 4      \* characters in a LogResult field

---------------------------------------------------------------------------
(* Values. *)

None == [tag |-> "None"]
Unbound == [tag |-> "unbound"]
Str(s) == [tag |-> "str", v |-> s]

Identifiers == {"HelloFunction", "arn:remote"}
Events == {"{}", "[1]"}
Bytes == {10, 255}
LogChars == {"Q", "="}
ErrorDetails == {"Unhandled"}

SeqsUpTo(S, n) == UNION {[1..k -> S] : k \in 0..n}

Function(id) == [tag |-> "Function", name |-> id]
Providers == [Identifiers -> BOOLEAN]

StreamWriter(n) == [tag |-> "StreamWriter", name |-> n]
DebugContexts == {[tag |-> "DebugContext", truthy |-> t] : t \in BOOLEAN}

\* The raw response of one invocation: a dict that always has "Payload" (a
\* stream positioned at its start) and may have "LogResult".
PayloadStream(b) == [data |-> b, pos |-> 0]
Responses ==
    {[k \in {"Payload"} |-> PayloadStream(b)] : b \in SeqsUpTo(Bytes, MaxPayloadLen)}
    \cup {[Payload |-> PayloadStream(b), LogResult |-> l] :
            b \in SeqsUpTo(Bytes, MaxPayloadLen), l \in SeqsUpTo(LogChars, MaxLogLen)}

\* What next() can hand back: a record, or None.
Records == {[tag |-> "Record", response |-> r, error |-> e] :
              r \in Responses, e \in {None} \cup {Str(d) : d \in ErrorDetails}}
Items == {None} \cup Records

\* An exception: its class and its argument.  The two methods raise only the
\* builtin Exception themselves (and next() raises StopIteration); the classes
\* of the collaborators' failures stand for whatever they raise.
Exc(type, text) == [tag |-> "exc", type |-> type, args |-> text]

\* Python truthiness of the values the two methods test.
bool(x) ==
    CASE x.tag = "None" -> FALSE
      [] x.tag = "DebugContext" -> x.truthy
      [] x.tag = "str" -> x.v # ""
      [] OTHER -> TRUE

---------------------------------------------------------------------------
(* Collaborators whose results the two methods use. *)

\* provider.get(function_identifier)
provider_get(p, id) == IF p[id] THEN Function(id) ELSE None

\* response["Payload"].read(): the rest of the stream, which is then at its end.
Rest(s) == SubSeq(s.data, s.pos + 1, Len(s.data))
AtEnd(s) == [s EXCEPT !.pos = Len(s.data)]

\* base64.b64decode(s) with the default validate=False, as binascii.a2b_base64
\* computes it: characters outside the alphabet are skipped, "=" ends the
\* input once a quad is complete with it, and a dangling quad is an error.
B64Value == [c \in {"A", "Q", "/"} |-> CASE c = "A" -> 0 [] c = "Q" -> 16 [] c = "/" -> 63]

RECURSIVE a2b_base64(_, _, _, _, _, _)
a2b_base64(s, i, quad_pos, leftchar, pads, out) ==
    IF i > Len(s)
    THEN IF quad_pos = 0 THEN [ok |-> TRUE, bytes |-> out]
         ELSE IF quad_pos = 1
              THEN [ok |-> FALSE, err |-> "Invalid base64-encoded string"]
              ELSE [ok |-> FALSE, err |-> "Incorrect padding"]
    ELSE IF s[i] = "="
    THEN IF quad_pos >= 2 /\ quad_pos + pads + 1 >= 4
         THEN [ok |-> TRUE, bytes |-> out]
         ELSE a2b_base64(s, i + 1, quad_pos, leftchar,
                         IF quad_pos >= 2 THEN pads + 1 ELSE pads, out)
    ELSE IF s[i] \notin DOMAIN B64Value
    THEN a2b_base64(s, i + 1, quad_pos, leftchar, pads, out)
    ELSE LET c == B64Value[s[i]] IN
         CASE quad_pos = 0 -> a2b_base64(s, i + 1, 1, c, 0, out)
           [] quad_pos = 1 ->
                a2b_base64(s, i + 1, 2, c % 16, 0,
                           Append(out, ((leftchar * 4) + (c \div 16)) % 256))
           [] quad_pos = 2 ->
                a2b_base64(s, i + 1, 3, c % 4, 0,
                           Append(out, ((leftchar * 16) + (c \div 4)) % 256))
           [] quad_pos = 3 ->
                a2b_base64(s, i + 1, 0, 0, 0,
                           Append(out, ((leftchar * 64) + c) % 256))

b64decode(s) == a2b_base64(s, 1, 0, 0, 0, <<>>)

---------------------------------------------------------------------------
(* The statements, as functions of the machine state m. *)

Raise(m, e) == [m EXCEPT !.raised = e, !.pc = "done"]

write_str(m, sink, text) ==
    [m EXCEPT !.io[sink] = Append(@, [op |-> "write_str", text |-> text])]
write_bytes(m, sink, b) ==
    [m EXCEPT !.io[sink] = Append(@, [op |-> "write_bytes", bytes |-> b])]
LOG_debug_str(m, text) ==
    [m EXCEPT !.io.log = Append(@, [level |-> "debug", text |-> text])]
LOG_debug_bytes(m, b) ==
    [m EXCEPT !.io.log = Append(@, [level |-> "debug", bytes |-> b])]

\* Faulty variant: any supplied DebugContext counts, truthy or not.
is_debugging_if_supplied(s) == s.debug_context # None

\* RemoteLambdaRunner.is_debugging
is_debugging(s) == bool(s.debug_context)

\* lambda_runner.py:56   function = self.local_lambda_runner.provider.get(...)
Line56(m) ==
    [m EXCEPT !.loc.function = provider_get(m.provider, m.args.function_identifier),
              !.pc = "L58"]

\* Faulty variant: the branch inverted.
Line58Inverted(m) ==
    IF bool(m.loc.function)
    THEN [m EXCEPT !.calls.remote = Append(@, m.args), !.rargs = m.args, !.pc = "R75"]
    ELSE [m EXCEPT !.calls.local = Append(@, m.args), !.pc = "L61"]

\* lambda_runner.py:58-61   the branch and the call it makes
Line58(m) ==
    IF ~bool(m.loc.function)
    THEN [m EXCEPT !.calls.remote = Append(@, m.args), !.rargs = m.args, !.pc = "R75"]
    ELSE [m EXCEPT !.calls.local = Append(@, m.args), !.pc = "L61"]

\* lambda_runner.py:61   LocalLambdaRunner.invoke returns or raises
Line61(m, ok) ==
    IF ok THEN [m EXCEPT !.pc = "done"]
    ELSE Raise(m, Exc("FunctionNotFound", m.args.function_identifier))

\* remote_lambda.py:75-86   the client provider and the lambda client
Line75(m, ok) ==
    IF ok THEN [m EXCEPT !.calls.clients = Append(@, "lambda"), !.pc = "R87"]
    ELSE Raise(m, Exc("ProfileNotFound", "profile"))

\* remote_lambda.py:87-88   the executor and execute(): n records are to come
Line87(m, ok, n) ==
    LET sent == [m EXCEPT !.calls.executes =
                    Append(@, [function_identifier |-> m.rargs.function_identifier,
                               event |-> m.rargs.event])]
    IN IF ok THEN [sent EXCEPT !.gen = [tag |-> "iterator", remaining |-> n],
                               !.pc = "R90"]
       ELSE Raise(sent, Exc("ClientError", "invoke"))

\* Faulty variant: the stream is pulled a second time.
Line90Twice(m, item) ==
    IF m.gen.remaining = 0
    THEN [m EXCEPT !.calls.nexts = @ + 1, !.raised = Exc("StopIteration", ""),
                   !.pc = "done"]
    ELSE [m EXCEPT !.calls.nexts = @ + 2,
                   !.gen.remaining = IF @ > 1 THEN @ - 2 ELSE 0,
                   !.loc.remote_invoke_response = item,
                   !.pc = "R92"]

\* remote_lambda.py:90   next(remote_execution_info)
Line90(m, item) ==
    LET pulled == [m EXCEPT !.calls.nexts = @ + 1] IN
    IF m.gen.remaining = 0
    THEN Raise(pulled, Exc("StopIteration", ""))
    ELSE [pulled EXCEPT !.gen.remaining = @ - 1,
                        !.loc.remote_invoke_response = item,
                        !.pc = "R92"]

NoResponseMessage ==
    "Remote invoke failed to execute. remote_executor did not return any response when iterating"

\* remote_lambda.py:92-97
Line92(m) ==
    IF m.loc.remote_invoke_response = None
    THEN Raise(IF bool(m.rargs.stderr)
               THEN write_str(m, "stderr", "Remote invoke failed.")
               ELSE m,
               Exc("Exception", NoResponseMessage))
    ELSE [m EXCEPT !.pc = "R99"]

\* remote_lambda.py:99-102
Line99(m) ==
    LET stream == m.loc.remote_invoke_response.response["Payload"]
        body == Rest(stream)
    IN [m EXCEPT !.loc.remote_invoke_response.response["Payload"] = AtEnd(stream),
                 !.loc.response_payload = body,
                 !.calls.reads = @ + 1,
                 !.io.print = Append(@, [label |-> "RESPONSE PAYLOAD", bytes |-> body]),
                 !.pc = "R104"]

\* remote_lambda.py:104-107
Line104(m) ==
    IF bool(m.loc.remote_invoke_response.error)
    THEN IF bool(m.rargs.stderr)
         THEN [write_bytes(write_str(m, "stderr", "Remote invoke failed"),
                           "stderr", m.loc.response_payload)
                 EXCEPT !.pc = "R108"]
         ELSE [m EXCEPT !.pc = "R108"]
    ELSE [m EXCEPT !.pc = "R112"]

\* remote_lambda.py:108-109
Line108(m) ==
    IF is_debugging(m.self)
    THEN [LOG_debug_str(m, "Remote invoke failed:") EXCEPT !.pc = "R110"]
    ELSE [m EXCEPT !.pc = "R111"]

\* remote_lambda.py:110
Line110(m) ==
    LET response == m.loc.remote_invoke_response.response IN
    IF "LogResult" \notin DOMAIN response
    THEN Raise(m, Exc("KeyError", "LogResult"))
    ELSE LET d == b64decode(response["LogResult"]) IN
         IF d.ok THEN [LOG_debug_bytes(m, d.bytes) EXCEPT !.pc = "R111"]
         ELSE Raise(m, Exc("binascii.Error", d.err))

\* Faulty variant: the function error is raised as a class of its own.
Line111OwnClass(m) ==
    [m EXCEPT !.raised = [tag |-> "exc", type |-> "FunctionError",
                          args |-> m.loc.remote_invoke_response.error.v],
              !.pc = "done"]

\* Faulty variant: the function error is reported but not raised.
Line111Swallowed(m) == [m EXCEPT !.pc = "done"]

\* remote_lambda.py:111
Line111(m) == Raise(m, Exc("Exception", m.loc.remote_invoke_response.error.v))

\* Faulty variant: a newline follows the payload.
Line112Newline(m) ==
    IF m.rargs.stdout # None
    THEN [m EXCEPT !.io.stdout = Append(@, [op |-> "write_bytes",
                                            bytes |-> Append(m.loc.response_payload, 10)]),
                   !.pc = "done"]
    ELSE [m EXCEPT !.pc = "done"]

\* remote_lambda.py:112-113
Line112(m) ==
    IF bool(m.rargs.stdout)
    THEN [write_bytes(m, "stdout", m.loc.response_payload) EXCEPT !.pc = "done"]
    ELSE [m EXCEPT !.pc = "done"]

\* RemoteLambdaRunner.invoke from the None test on: the statements that run
\* once next() has handed back an item, composed in program order.
RECURSIVE invoke_tail(_)
invoke_tail(m) ==
    CASE m.pc = "R92" -> invoke_tail(Line92(m))
      [] m.pc = "R99" -> invoke_tail(Line99(m))
      [] m.pc = "R104" -> invoke_tail(Line104(m))
      [] m.pc = "R108" -> invoke_tail(Line108(m))
      [] m.pc = "R110" -> invoke_tail(Line110(m))
      [] m.pc = "R111" -> invoke_tail(Line111(m))
      [] m.pc = "R112" -> invoke_tail(Line112(m))
      [] OTHER -> m

---------------------------------------------------------------------------
(* The state machine. *)

Machine ==
    [pc |-> pc, provider |-> provider, self |-> self, args |-> args, rargs |-> rargs,
     gen |-> gen, loc |-> loc, io |-> io, calls |-> calls, raised |-> raised]

Become(m) ==
    /\ pc' = m.pc
    /\ provider' = m.provider
    /\ self' = m.self
    /\ args' = m.args
    /\ rargs' = m.rargs
    /\ gen' = m.gen
    /\ loc' = m.loc
    /\ io' = m.io
    /\ calls' = m.calls
    /\ raised' = m.raised

Init ==
    /\ pc = "L56"
    /\ provider \in Providers
    /\ self \in [debug_context : {None} \cup DebugContexts,
                 aws_profile : {None}, aws_region : {None}]
    /\ args \in [function_identifier : Identifiers,
                 event : Events,
                 stdout : {None, StreamWriter("stdout")},
                 stderr : {None, StreamWriter("stderr")}]
    /\ rargs = Unbound
    /\ gen = Unbound
    /\ loc = [function |-> Unbound, remote_invoke_response |-> Unbound,
              response_payload |-> Unbound]
    /\ io = [stdout |-> <<>>, stderr |-> <<>>, log |-> <<>>, print |-> <<>>]
    /\ calls = [local |-> <<>>, remote |-> <<>>, clients |-> <<>>, executes |-> <<>>,
                nexts |-> 0, reads |-> 0]
    /\ raised = None

provider_lookup == pc = "L56" /\ Become(Line56(Machine))
route == pc = "L58" /\ Become(Line58(Machine))
local_invoke == pc = "L61" /\ \E ok \in BOOLEAN : Become(Line61(Machine, ok))
build_client == pc = "R75" /\ \E ok \in BOOLEAN : Become(Line75(Machine, ok))
execute ==
    pc = "R87" /\ \E ok \in BOOLEAN, n \in 0..MaxStream : Become(Line87(Machine, ok, n))
pull_next == pc = "R90" /\ \E item \in Items : Become(Line90(Machine, item))
none_check == pc = "R92" /\ Become(Line92(Machine))
read_payload == pc = "R99" /\ Become(Line99(Machine))
error_branch == pc = "R104" /\ Become(Line104(Machine))
debug_notice == pc = "R108" /\ Become(Line108(Machine))
debug_log == pc = "R110" /\ Become(Line110(Machine))
raise_error == pc = "R111" /\ Become(Line111(Machine))
success_write == pc = "R112" /\ Become(Line112(Machine))

Next ==
    \/ provider_lookup
    \/ route
    \/ local_invoke
    \/ build_client
    \/ execute
    \/ pull_next
    \/ none_check
    \/ read_payload
    \/ error_branch
    \/ debug_notice
    \/ debug_log
    \/ raise_error
    \/ success_write

Spec == Init /\ [][Next]_vars

---------------------------------------------------------------------------
(* Vocabulary of the properties. *)

Done == pc = "done"
RemoteEntered == rargs # Unbound
Rec == loc.remote_invoke_response
GotRecord == Rec.tag = "Record"
OnSuccess == GotRecord /\ Rec.error = None
OnError == GotRecord /\ Rec.error # None
EmptyPull == calls.nexts = 1 /\ Rec = Unbound
PayloadBytes == Rec.response["Payload"].data
HasLog == "LogResult" \in DOMAIN Rec.response
Present == provider_get(provider, args.function_identifier) # None

Notice == [op |-> "write_str", text |-> "Remote invoke failed"]
WriteOf(b) == [op |-> "write_bytes", bytes |-> b]
FunctionErrorOf(rec) == Exc("Exception", rec.error.v)
NoResponseFailure == Exc("Exception", NoResponseMessage)
CollaboratorFailures == {"ProfileNotFound", "ClientError", "StopIteration"}

TruthyContextSupplied ==
    self.debug_context.tag = "DebugContext" /\ self.debug_context.truthy
DecodedLogEmitted == \E i \in 1..Len(io.log) : "bytes" \in DOMAIN io.log[i]

\* The same RemoteLambdaRunner.invoke, had next() handed back `item` to a
\* runner whose debug_context is d: the statements from the None test on,
\* run to the end from a fresh item and untouched sinks.
Rewound(item) ==
    IF item.tag = "Record"
    THEN [item EXCEPT !.response["Payload"].pos = 0]
    ELSE item
OtherRun(item, d) ==
    invoke_tail([Machine EXCEPT
        !.pc = "R92",
        !.self.debug_context = d,
        !.loc.remote_invoke_response = Rewound(item),
        !.loc.response_payload = Unbound,
        !.io = [stdout |-> <<>>, stderr |-> <<>>, log |-> <<>>, print |-> <<>>],
        !.calls.reads = 0,
        !.raised = None])

---------------------------------------------------------------------------
(* C1: LambdaRunner.invoke routes by one registry lookup.  When              *)
(* provider.get returns a function, LocalLambdaRunner.invoke is called      *)
(* exactly once with the caller's (identifier, event, stdout, stderr),      *)
(* RemoteLambdaRunner.invoke is never called and no client is built; when   *)
(* it returns nothing, RemoteLambdaRunner.invoke is called exactly once     *)
(* with those arguments and LocalLambdaRunner.invoke is never called.  The  *)
(* other branch is never taken afterwards, whether the chosen one returns   *)
(* or raises.                                                               *)
RoutingCorrect ==
    /\ Present =>
          /\ calls.remote = <<>>
          /\ calls.clients = <<>>
          /\ calls.executes = <<>>
          /\ rargs = Unbound
          /\ calls.local = IF pc \in {"L61", "done"} THEN <<args>> ELSE <<>>
    /\ ~Present =>
          /\ calls.local = <<>>
          /\ calls.remote = IF pc \in {"L56", "L58"} THEN <<>> ELSE <<args>>
          /\ pc \notin {"L56", "L58"} => rargs = args
          /\ pc # "L61"

RoutingWitness ==
    /\ Done
    /\ Present
    /\ raised # None
    /\ calls.local = <<args>>
    /\ calls.remote = <<>>

(* C2: when the result stream yields no record at all, the invocation fails *)
(* with the 'did not return any response' failure, a failure notice has     *)
(* been written to stderr if stderr was supplied, nothing is written to     *)
(* stdout and the payload is never read.                                    *)
EmptyStreamHandled ==
    Done /\ RemoteEntered /\ EmptyPull =>
        /\ raised = NoResponseFailure
        /\ rargs.stderr # None => io.stderr # <<>>
        /\ io.stdout = <<>>
        /\ calls.reads = 0

(* C3: for a record with an error indicator and payload b, stderr (when     *)
(* supplied) receives the failure notice and then exactly b, each once, and *)
(* the invocation fails with the error carrying the record's error detail;  *)
(* without stderr nothing is written and the same error is raised.          *)
ErrorRoundTrip ==
    Done /\ OnError =>
        /\ raised = FunctionErrorOf(Rec)
        /\ io.stderr = IF rargs.stderr # None
                       THEN <<Notice, WriteOf(PayloadBytes)>>
                       ELSE <<>>
        /\ io.stdout = <<>>

(* C4: for a record with no error indicator and payload b, stdout (when     *)
(* supplied) receives exactly one write_bytes, of exactly b, and the        *)
(* invocation returns without raising.                                      *)
SuccessRoundTrip ==
    Done /\ OnSuccess =>
        /\ raised = None
        /\ io.stdout = IF rargs.stdout # None THEN <<WriteOf(PayloadBytes)>> ELSE <<>>
        /\ io.stderr = <<>>

SuccessWitness ==
    /\ Done
    /\ OnSuccess
    /\ rargs.stdout # None
    /\ PayloadBytes # <<>>
    /\ io.stdout = <<WriteOf(PayloadBytes)>>

(* C5: in one RemoteLambdaRunner.invoke at most one request is issued, the  *)
(* result stream is pulled at most once and the payload is read at most     *)
(* once; and on every path on which execute() handed back a result stream   *)
(* (success, function error, no response, empty stream) exactly one request *)
(* was issued, for the identifier and event the method was given, and the   *)
(* stream was pulled exactly once.                                          *)
SingleConsumption ==
    /\ Len(calls.executes) <= 1
    /\ calls.nexts <= 1
    /\ calls.reads <= 1
    /\ calls.reads = 1 => GotRecord
    /\ Done /\ gen # Unbound =>
          /\ calls.executes = <<[function_identifier |-> rargs.function_identifier,
                                 event |-> rargs.event]>>
          /\ calls.nexts = 1
          /\ GotRecord => calls.reads = 1

SingleConsumptionWitness ==
    /\ Done
    /\ gen # Unbound
    /\ gen.remaining > 0
    /\ GotRecord
    /\ calls.nexts = 1
    /\ calls.reads = 1

(* C6, as claimed: the failure raised for a function-level error is of a    *)
(* different kind (exception class) from the failure raised when no         *)
(* response came back and from a client-construction or communication       *)
(* fault, so that a caller can tell them apart without reading the message. *)
FailureKindsDistinct ==
    Done /\ OnError /\ raised # None =>
        /\ raised.type # OtherRun(None, self.debug_context).raised.type
        /\ raised.type \notin CollaboratorFailures

(* C6, amended: the function-level error (line 111) and the no-response     *)
(* failure (line 95) are both raised as the generic Exception and differ    *)
(* only in their argument, the record's error detail against the fixed      *)
(* message; the failures of client construction, of execute() and of an     *)
(* exhausted stream keep their own exception classes.                       *)
FailureKindsShared ==
    Done =>
        /\ OnError =>
              /\ raised # None
              /\ raised.type \in {"Exception", "KeyError", "binascii.Error"}
              /\ raised.type = "Exception" =>
                    /\ raised = FunctionErrorOf(Rec)
                    /\ OtherRun(None, self.debug_context).raised.type = raised.type
        /\ RemoteEntered /\ Rec = None => raised = NoResponseFailure
        /\ RemoteEntered /\ Rec = Unbound =>
              /\ raised # None
              /\ raised.type \in CollaboratorFailures

FailureKindsWitness ==
    /\ Done
    /\ OnError
    /\ raised = FunctionErrorOf(Rec)
    /\ OtherRun(None, self.debug_context).raised = NoResponseFailure

(* C7, as claimed: no failure is swallowed, and for every kind of failure   *)
(* a diagnostic has been written to stderr before it propagates whenever    *)
(* stderr was supplied; without stderr nothing is written.                  *)
EveryFailureDiagnosed ==
    Done /\ RemoteEntered =>
        /\ raised = None => OnSuccess
        /\ raised # None /\ rargs.stderr # None => io.stderr # <<>>
        /\ rargs.stderr = None => io.stderr = <<>>

(* C7, amended: no failure is swallowed; for a function-level error and for *)
(* a None record a diagnostic has been written to stderr before the failure *)
(* propagates whenever stderr was supplied; a client-construction failure   *)
(* and a communication fault of execute() propagate unmodified with nothing *)
(* written; without stderr nothing is ever written.                         *)
FailuresPropagate ==
    Done /\ RemoteEntered =>
        /\ raised = None => OnSuccess
        /\ OnError \/ Rec = None =>
              /\ raised # None
              /\ rargs.stderr # None =>
                    /\ io.stderr # <<>>
                    /\ Head(io.stderr).op = "write_str"
        /\ raised # None /\ raised.type \in {"ProfileNotFound", "ClientError"} =>
              /\ io.stderr = <<>>
              /\ io.stdout = <<>>
        /\ rargs.stderr = None => io.stderr = <<>>

FailuresPropagateWitness ==
    /\ Done
    /\ RemoteEntered
    /\ rargs.stderr # None
    /\ raised = Exc("ClientError", "invoke")
    /\ io.stderr = <<>>

(* C8, as claimed: is_debugging() is true iff a truthy DebugContext was     *)
(* supplied, and the decoded log is emitted exactly when is_debugging() is  *)
(* true and the record carries an error indicator and a log field.          *)
DebugGating ==
    /\ is_debugging(self) <=> TruthyContextSupplied
    /\ Done /\ RemoteEntered =>
          (DecodedLogEmitted <=> (TruthyContextSupplied /\ OnError /\ HasLog))

(* C8, amended: is_debugging() is true iff a truthy DebugContext was        *)
(* supplied, and the decoded log is emitted exactly when is_debugging() is  *)
(* true and the record carries an error indicator and a log field that      *)
(* b64decode accepts; it then follows the "Remote invoke failed:" line on   *)
(* the diagnostic channel and comes in addition to the stderr notice and    *)
(* payload; it is never emitted on success or when not debugging.           *)
DebugGatingDecodable ==
    /\ is_debugging(self) <=> TruthyContextSupplied
    /\ Done /\ RemoteEntered =>
          /\ DecodedLogEmitted <=>
                (/\ TruthyContextSupplied
                 /\ OnError
                 /\ HasLog
                 /\ b64decode(Rec.response["LogResult"]).ok)
          /\ DecodedLogEmitted =>
                /\ io.log = <<[level |-> "debug", text |-> "Remote invoke failed:"],
                              [level |-> "debug",
                               bytes |-> b64decode(Rec.response["LogResult"]).bytes]>>
                /\ Rec.response["LogResult"] = <<"Q", "Q", "=", "=">> =>
                      io.log[2].bytes = <<65>>
                /\ Rec.response["LogResult"] = <<"Q", "Q", "Q", "Q">> =>
                      io.log[2].bytes = <<65, 4, 16>>
                /\ rargs.stderr # None =>
                      io.stderr = <<Notice, WriteOf(PayloadBytes)>>
          /\ ~TruthyContextSupplied \/ OnSuccess => io.log = <<>>

DebugGatingWitness ==
    /\ Done
    /\ OnError
    /\ is_debugging(self)
    /\ rargs.stderr # None
    /\ HasLog
    /\ Rec.response["LogResult"] = <<"Q", "Q", "=", "=">>
    /\ io.log[2] = [level |-> "debug", bytes |-> <<65>>]
    /\ io.stderr = <<Notice, WriteOf(PayloadBytes)>>

(* C9: with stdout and stderr both omitted, nothing is written to a sink    *)
(* and no null-reference failure occurs; a success record makes the         *)
(* invocation return normally and an error record makes it raise the        *)
(* function error and nothing else.                                         *)
NoSinkNoCrash ==
    Done /\ RemoteEntered /\ rargs.stdout = None /\ rargs.stderr = None =>
        /\ io.stdout = <<>>
        /\ io.stderr = <<>>
        /\ OnSuccess => raised = None
        /\ OnError => raised = FunctionErrorOf(Rec)

(* C10: the debug flag does not alter the outcome.  For the record that     *)
(* next() handed back and the same sinks, a runner that differs only in     *)
(* whether it is debugging ends with the same return or the same raised     *)
(* failure and the same stdout and stderr writes.                           *)
DebugNeverAltersOutcome ==
    Done /\ RemoteEntered /\ Rec # Unbound =>
        \A d \in {None} \cup DebugContexts :
            bool(d) # is_debugging(self) =>
                LET other == OtherRun(Rec, d) IN
                /\ other.raised = raised
                /\ other.io.stdout = io.stdout
                /\ other.io.stderr = io.stderr

=============================================================================
